---- MODULE Spec2Model ----
(***************************************************************************)
(* AvoidanceByLCModule (behavior_path_planner, scene_module/avoidance_by_lc)*)
(* as a state machine: one action per method of the module, the data of    *)
(* the planner (objects, lanes, candidate paths, ego pose) drawn afresh by *)
(* every call from small sets.                                             *)
(***************************************************************************)
EXTENDS Integers, Sequences, FiniteSets, TLC

\* ---------------------------------------------------------------- bounds
MaxObjects == 2     \* target objects in one cycle (detected plus compensated)
MaxDist == 1        \* longitudinal distances and margins are 0..MaxDist
MaxPaths == 2       \* candidate lane-change paths of one search
MaxLanes == 2       \* lanelets of the current lane sequence
MaxAbortPaths == 2  \* distinct abort paths getAbortPaths can return

VARIABLES
  USE_OLD_ARCHITECTURE,          \* the build: which #ifdef branch is compiled
  parameters_,                   \* parameters_->lane_change: the enable flags
  current_state_,                \* ModuleStatus
  is_waiting_approval_,          \* SceneModuleInterface flag
  is_activated_,                 \* approval snapshot taken by plan()
  current_lane_change_state_,    \* LaneChangeStates
  abort_path_,                   \* shared_ptr<LaneChangePath>, NullPath = nullptr
  is_abort_approval_requested_,
  is_abort_path_approved_,
  is_abort_condition_satisfied_,
  status_,                       \* LaneChangeStatus
  avoidance_data_,               \* AvoidancePlanningData (target_objects)
  path_candidate_,               \* candidate shown for approval
  prev_approved_path_,           \* path handed on while approval is awaited
  rtc,                           \* registration at the approval gateway
  rtc_path,                      \* the pending path the registration was issued for
  output,                        \* BehaviorModuleOutput of the last plan call
  phase,                         \* position of the caller in its cycle
  obs                            \* what the last call read and returned

vars == <<USE_OLD_ARCHITECTURE, parameters_, current_state_, is_waiting_approval_,
          is_activated_, current_lane_change_state_, abort_path_,
          is_abort_approval_requested_, is_abort_path_approved_,
          is_abort_condition_satisfied_, status_, avoidance_data_, path_candidate_,
          prev_approved_path_, rtc, rtc_path, output, phase, obs>>

\* ------------------------------------------------------------ value sets
\* the elements of S, listed
Enumerated(S) == {x : x \in S}
Distances == 0..MaxDist
\* ObjectData: the fields the module reads (lateral < 0: object on the right)
ObjectData == Enumerated([longitudinal : Distances, lateral : {-1, 1}])
\* a LaneChangePath is known by its number; NoPath is a default-constructed one
NoPath == 0
PathIds == 1..MaxPaths
NullPath == 0
AbortPathIds == 1..MaxAbortPaths
\* lanelets of the current lanes are 1..n; a neighbour is named by side and lanelet
Lanelets == 1..MaxLanes
NoLanes == << >>

SeqsUpTo(S, n) == Enumerated(UNION {[1..k -> S] : k \in 0..n})
\* candidate lists: sequences of distinct path numbers
PathLists == {s \in SeqsUpTo(PathIds, MaxPaths) :
                \A i, j \in 1..Len(s) : i # j => s[i] # s[j]}

Max(a, b) == IF a > b THEN a ELSE b

\* std::vector::front(); on an empty vector the read is undefined and yields
\* whatever the build finds there (garbage)
front(v, garbage) == IF v = << >> THEN garbage ELSE v[1]
back(v) == v[Len(v)]

isOnRight(obj) == obj.lateral < 0

\* ------------------------------------------------------------ updateData
\* the comparison of the sort in updateData
LongitudinalLessReversed(a, b) == a.longitudinal > b.longitudinal
LongitudinalLess(a, b) == a.longitudinal < b.longitudinal

Rearrangements(s) ==
  {t \in [1..Len(s) -> {s[i] : i \in 1..Len(s)}] :
     \E p \in [1..Len(s) -> 1..Len(s)] :
        /\ \A i, j \in 1..Len(s) : i # j => p[i] # p[j]
        /\ \A i \in 1..Len(s) : t[i] = s[p[i]]}

\* std::sort: some permutation in which no later element compares less than an
\* earlier one (the order of equal elements is unspecified)
StdSort(s) ==
  {t \in Rearrangements(s) :
     \A i, j \in 1..Len(t) : i < j => ~LongitudinalLess(t[j], t[i])}


\* ------------------------------------------------- data read by the calls
\* What one call reads of planner_data_ and of the previous module's output
\* for the lane and candidate search:
\*   current_lanes  util::getCurrentLanes / getCurrentLanesFromPath
\*   check          how many lanelets getLaneletSequence returns within
\*                  lane_change_prepare_length, from the closest lanelet on
\*   left, right    the lanelets that have a left / right neighbour in the
\*                  routing graph
\*   valid_paths, found_safe_path   what util::lane_change::getLaneChangePaths
\*                  returns (candidate list, and whether its last one is safe)
\*   end            calcSignedArcLength from ego to the shift-line end of the
\*                  selected path
LaneSequence(n) == [i \in 1..n |-> i]
PlannerData ==
  {d \in Enumerated([current_lanes : {LaneSequence(n) : n \in 0..MaxLanes},
                      check : 1..MaxLanes,
                      left : SUBSET Lanelets, right : SUBSET Lanelets,
                      valid_paths : PathLists, found_safe_path : BOOLEAN,
                      end : Distances]) :
     /\ d.left \subseteq 1..Len(d.current_lanes)
     /\ d.right \subseteq 1..Len(d.current_lanes)
     /\ d.check <= Max(1, Len(d.current_lanes))
     /\ (d.valid_paths = << >> => ~d.found_safe_path /\ d.end = 0)}
\* the data the cycles of the state machine are run with: no lanelet, or one
\* with a neighbour on its left; no candidate, or a full list of them
CycleData ==
  {d \in PlannerData : /\ Len(d.current_lanes) <= 1
                       /\ d.left = {i \in 1..Len(d.current_lanes) : TRUE}
                       /\ d.right = {}
                       /\ d.valid_paths \in {<< >>, [i \in 1..MaxPaths |-> i]}}

\* The trigger thresholds of AvoidanceByLCParameters. parameters_ points to a
\* struct the module shares with its manager; a call reads the values it holds
\* then.
TriggerParameters ==
  Enumerated([execute_object_num : 0..MaxObjects,
              execute_object_longitudinal_margin : Distances,
              execute_only_when_lane_change_finish_before_object : BOOLEAN])

\* what front() yields for a call that reads it: the first object, or anything
\* at all when the list is empty (the read is undefined then). A call whose
\* object count check returns before front() reads nothing.
Garbage(p) ==
  IF avoidance_data_.target_objects # << >> THEN {avoidance_data_.target_objects[1]}
  ELSE IF p.execute_object_num = 0 THEN ObjectData
  ELSE {[longitudinal |-> 0, lateral |-> 1]}

\* --------------------------------------------------- getLaneChangeLanes
Neighbour(side, lanelet) == [side |-> side, of |-> lanelet]
\* the for loop with break: the neighbour of the first lanelet that has one
FirstNeighbour(check_lanes, has, side) ==
  LET idx == {i \in 1..Len(check_lanes) : check_lanes[i] \in has}
  IN IF idx = {} THEN NoLanes
     ELSE <<Neighbour(side, check_lanes[CHOOSE i \in idx : \A j \in idx : i <= j])>>

\* front() was read of an empty vector
EmptyFront(reads) == reads /\ avoidance_data_.target_objects = << >>
\* whether a getLaneChangeLanes call gets as far as its front() read
getLaneChangeLanesReadsFront(current_lanes, p) ==
  /\ current_lanes # << >>
  /\ ~(Len(avoidance_data_.target_objects) < p.execute_object_num)

getLaneChangeLanesNoCount(current_lanes, p, d, garbage) ==
  IF current_lanes = << >> THEN NoLanes
  ELSE LET o_front == front(avoidance_data_.target_objects, garbage)
           current_check_lanes == SubSeq(current_lanes, 1, d.check)
       IN IF isOnRight(o_front)
          THEN FirstNeighbour(current_check_lanes, d.left, "left")
          ELSE FirstNeighbour(current_check_lanes, d.right, "right")
getLaneChangeLanes(current_lanes, p, d, garbage) ==
  IF current_lanes = << >> THEN NoLanes
  ELSE IF Len(avoidance_data_.target_objects) < p.execute_object_num
  THEN NoLanes
  ELSE LET o_front == front(avoidance_data_.target_objects, garbage)
           current_check_lanes == SubSeq(current_lanes, 1, d.check)
       IN IF isOnRight(o_front)
          THEN FirstNeighbour(current_check_lanes, d.left, "left")
          ELSE FirstNeighbour(current_check_lanes, d.right, "right")

\* ------------------------------------------------------------ getSafePath
\* returns found_valid_path, found_safe_path and the out-parameter safe_path
\* (safe_path_in is the value the caller passed in); valid_paths is the list
\* getLaneChangePaths generated, empty when it was not called
Found(valid, safe, path, list) ==
  [found_valid_path |-> valid, found_safe_path |-> safe, safe_path |-> path,
   valid_paths |-> list]
getSafePathAlwaysLast(lane_change_lanes, safe_path_in, d) ==
  IF lane_change_lanes = << >> \/ avoidance_data_.target_objects = << >>
     \/ d.valid_paths = << >>
  THEN Found(FALSE, FALSE, safe_path_in, << >>)
  ELSE Found(TRUE, d.found_safe_path, back(d.valid_paths), d.valid_paths)
getSafePathNoObjectCheck(lane_change_lanes, safe_path_in, d) ==
  IF lane_change_lanes = << >> THEN Found(FALSE, FALSE, safe_path_in, << >>)
  ELSE IF d.valid_paths = << >> THEN Found(FALSE, FALSE, safe_path_in, d.valid_paths)
  ELSE IF d.found_safe_path
  THEN Found(TRUE, TRUE, back(d.valid_paths), d.valid_paths)
  ELSE Found(TRUE, FALSE, d.valid_paths[1], d.valid_paths)
getSafePath(lane_change_lanes, safe_path_in, d) ==
  IF lane_change_lanes = << >> THEN Found(FALSE, FALSE, safe_path_in, << >>)
  ELSE IF avoidance_data_.target_objects = << >>
  THEN Found(FALSE, FALSE, safe_path_in, << >>)
  ELSE IF d.valid_paths = << >> THEN Found(FALSE, FALSE, safe_path_in, d.valid_paths)
  ELSE IF d.found_safe_path
  THEN Found(TRUE, TRUE, back(d.valid_paths), d.valid_paths)
  ELSE Found(TRUE, FALSE, d.valid_paths[1], d.valid_paths)

\* ------------------------------------------------------- what a call leaves
\* obs records the call made last: its name, its return value, the trigger
\* thresholds it read, what its lane and candidate search read and found (of
\* the search of planWaitingApproval the safety verdict only), what it read of
\* the ego and the committed path (called: updateState got as far as
\* isAbortConditionSatisfied; asked: that call re-checked the safety of the path),
\* and, of updateData, how many objects the detection-loss compensation
\* appended.
NoTrigger == [execute_object_num |-> 0, execute_object_longitudinal_margin |-> 0,
              execute_only_when_lane_change_finish_before_object |-> FALSE]
NoGate == [searched |-> FALSE, current_lanes |-> << >>, check |-> 1,
           left |-> {}, right |-> {},
           lane_change_lanes |-> << >>, valid_paths |-> << >>,
           found_valid_path |-> FALSE, found_safe_path |-> FALSE,
           safe_path |-> NoPath, end |-> 0]
\* the search every gate makes: getLaneChangeLanes, then getSafePath into a
\* default-constructed selected_path
Search(p, d, garbage) ==
  LET lane_change_lanes == getLaneChangeLanes(d.current_lanes, p, d, garbage)
      r == getSafePath(lane_change_lanes, NoPath, d)
  IN [searched |-> TRUE, current_lanes |-> d.current_lanes, check |-> d.check,
      left |-> d.left, right |-> d.right,
      lane_change_lanes |-> lane_change_lanes, valid_paths |-> r.valid_paths,
      found_valid_path |-> r.found_valid_path,
      found_safe_path |-> r.found_safe_path, safe_path |-> r.safe_path,
      end |-> IF r.found_valid_path THEN d.end ELSE 0]

NoCycle == [called |-> FALSE, asked |-> FALSE, is_path_safe |-> TRUE, is_within_original_lane |-> TRUE,
            found_abort_path |-> NullPath, slow_near_end |-> FALSE,
            finished |-> FALSE, end |-> 0]
Obs(op, ret, p, gate, cycle) ==
  [op |-> op, ret |-> ret, p |-> p, gate |-> gate, cycle |-> cycle,
   lost |-> 0, fault |-> FALSE]
Did(op) == Obs(op, FALSE, NoTrigger, NoGate, NoCycle)

\* ----------------------------------------------------------------- Init
Parameters == [enable_cancel_lane_change : BOOLEAN, enable_abort_lane_change : BOOLEAN]

\* a path handed to the caller: what it is ("none": a null pointer or an empty
\* path), which LaneChangePath it copies, and whether a stop or deceleration
\* point was inserted into the copy
NoOutput == [kind |-> "none", path |-> NoPath, stop |-> FALSE]
Path(kind, path, stop) == [kind |-> kind, path |-> path, stop |-> stop]

Init ==
  /\ USE_OLD_ARCHITECTURE \in BOOLEAN
  /\ parameters_ \in Parameters
  /\ current_state_ = "IDLE"
  /\ is_waiting_approval_ = FALSE
  /\ is_activated_ = FALSE
  /\ current_lane_change_state_ = "Normal"
  /\ abort_path_ = NullPath
  /\ is_abort_approval_requested_ = FALSE
  /\ is_abort_path_approved_ = FALSE
  /\ is_abort_condition_satisfied_ = FALSE
  /\ status_ = [current_lanes |-> << >>, lane_change_lanes |-> << >>,
                lane_change_path |-> NoPath, is_safe |-> FALSE,
                is_valid_path |-> TRUE]
  /\ avoidance_data_ = [target_objects |-> << >>]
  /\ path_candidate_ = NoOutput
  /\ prev_approved_path_ = NoOutput
  /\ rtc = "none"
  /\ rtc_path = NoOutput
  /\ output = NoOutput
  /\ phase = "idle"
  /\ obs = Did("none")

module_state == <<current_state_, is_waiting_approval_, is_activated_,
                  current_lane_change_state_, abort_path_,
                  is_abort_approval_requested_, is_abort_path_approved_,
                  is_abort_condition_satisfied_, status_, path_candidate_,
                  prev_approved_path_, rtc, rtc_path, output>>
build == <<USE_OLD_ARCHITECTURE, parameters_>>

\* ------------------------------------------------------------ updateData
\* detected: the target objects calcAvoidancePlanningData finds this cycle,
\* in the order of the perception message; lost: the registered objects that
\* compensateDetectionLost appends; then the sort.
updateData(detected, lost) ==
  /\ phase \in {"idle", "data"}
  /\ \E sorted \in StdSort(detected \o lost) :
        avoidance_data_' = [target_objects |-> sorted]
  /\ phase' = IF phase = "idle" THEN "idle" ELSE "plan"
  /\ obs' = [Did("updateData") EXCEPT !.lost = Len(lost)]
  /\ UNCHANGED <<build, module_state>>

ObjectLists(n) == {l \in Enumerated(SeqsUpTo(ObjectData, n) \X SeqsUpTo(ObjectData, n)) :
                     Len(l[1]) + Len(l[2]) <= n}
AllObjectLists == ObjectLists(MaxObjects)

\* ---------------------------------------------------- isExecutionRequested
\* what the checks behind the RUNNING shortcut return; s: what the search of
\* this call found
executionRequestedNoMargin(p, s, garbage) ==
  LET object_num == Len(avoidance_data_.target_objects)
      to_front_object_distance ==
        front(avoidance_data_.target_objects, garbage).longitudinal
      lane_change_finish_before_object == to_front_object_distance > s.end
  IN IF ~s.found_valid_path THEN FALSE
     ELSE IF p.execute_object_num > object_num THEN FALSE
     ELSE IF ~lane_change_finish_before_object
             /\ p.execute_only_when_lane_change_finish_before_object
     THEN FALSE
     ELSE TRUE
executionRequestedNoFinish(p, s, garbage) ==
  LET object_num == Len(avoidance_data_.target_objects)
      to_front_object_distance ==
        front(avoidance_data_.target_objects, garbage).longitudinal
  IN IF ~s.found_valid_path THEN FALSE
     ELSE IF p.execute_object_num > object_num THEN FALSE
     ELSE IF p.execute_object_longitudinal_margin > to_front_object_distance
     THEN FALSE
     ELSE TRUE
executionRequested(p, s, garbage) ==
  LET object_num == Len(avoidance_data_.target_objects)
      to_front_object_distance ==
        front(avoidance_data_.target_objects, garbage).longitudinal
      to_lane_change_end_distance == s.end
      lane_change_finish_before_object ==
        to_front_object_distance > to_lane_change_end_distance
  IN IF ~s.found_valid_path THEN FALSE
     ELSE IF p.execute_object_num > object_num THEN FALSE
     ELSE IF p.execute_object_longitudinal_margin > to_front_object_distance
     THEN FALSE
     ELSE IF ~lane_change_finish_before_object
             /\ p.execute_only_when_lane_change_finish_before_object
     THEN FALSE
     ELSE TRUE

\* The caller asks between cycles and takes the answer (Answered) before it
\* goes on.
isExecutionRequested(p, d, garbage) ==
  LET s == Search(p, d, garbage)
  IN /\ phase \in {"idle", "data"}
     /\ phase' = IF phase = "idle" THEN "idle asked" ELSE "data asked"
     /\ obs' = IF current_state_ = "RUNNING"
               THEN Obs("isExecutionRequested", TRUE, p, NoGate, NoCycle)
               ELSE [Obs("isExecutionRequested", executionRequested(p, s, garbage),
                         p, s, NoCycle)
                       EXCEPT !.fault = EmptyFront(
                         \/ getLaneChangeLanesReadsFront(d.current_lanes, p)
                         \/ /\ s.found_valid_path
                            /\ ~(p.execute_object_num >
                                   Len(avoidance_data_.target_objects)))]
     /\ UNCHANGED <<build, module_state, avoidance_data_>>

\* ------------------------------------------------------- isExecutionReady
isExecutionReady(p, d, garbage) ==
  LET s == Search(p, d, garbage)
  IN /\ phase \in {"idle", "data"}
     /\ phase' = IF phase = "idle" THEN "idle asked" ELSE "data asked"
     /\ obs' = IF current_state_ = "RUNNING"
               THEN Obs("isExecutionReady", TRUE, p, NoGate, NoCycle)
               ELSE [Obs("isExecutionReady", s.found_safe_path, p, s, NoCycle)
                       EXCEPT !.fault = EmptyFront(
                         getLaneChangeLanesReadsFront(d.current_lanes, p))]
     /\ UNCHANGED <<build, module_state, avoidance_data_>>

Answered ==
  /\ phase \in {"idle asked", "data asked"}
  /\ phase' = IF phase = "idle asked" THEN "idle" ELSE "data"
  /\ obs' = Did("none")
  /\ UNCHANGED <<build, module_state, avoidance_data_>>

\* ------------------------------------------------- the approval gateway
\* rtc is the module's registration at the gateway: "none" (nothing
\* registered), "waiting" (registered, not approved), "activated" (approved).
\* rtc_path is the pending path the registration was issued for (its uuid
\* stands for that request), NoOutput when nothing is registered.
isActivated == rtc = "activated"
\* updateRTCStatus / waitApprovalLeft / waitApprovalRight: register the request
\* if none is registered
registered(r) == IF r = "none" THEN "waiting" ELSE r
\* the operator (or the automatic mode) approves or withdraws between cycles
rtcCommand ==
  /\ phase = "data"
  /\ rtc # "none"
  /\ rtc' = IF rtc = "waiting" THEN "activated" ELSE "waiting"
  /\ obs' = Did("rtcCommand")
  /\ UNCHANGED <<build, current_state_, is_waiting_approval_, is_activated_,
                 current_lane_change_state_, abort_path_,
                 is_abort_approval_requested_, is_abort_path_approved_,
                 is_abort_condition_satisfied_, status_, avoidance_data_,
                 path_candidate_, prev_approved_path_, rtc_path, output, phase>>

\* SceneModuleInterface::run: plan() once approval is there or was there for
\* the running maneuver, planWaitingApproval() before
runsPlan == isActivated \/ (~is_waiting_approval_ /\ current_state_ = "RUNNING")

\* ------------------------------------------------ updateLaneChangeStatus
\* is_valid_path is not among the fields it writes
updateLaneChangeStatusKeepsPath(p, d, garbage) ==
  LET lane_change_lanes == getLaneChangeLanes(d.current_lanes, p, d, garbage)
      r == getSafePath(lane_change_lanes, NoPath, d)
  IN [status_ EXCEPT !.current_lanes = d.current_lanes,
                     !.lane_change_lanes = lane_change_lanes,
                     !.is_safe = r.found_safe_path]
updateLaneChangeStatus(p, d, garbage) ==
  LET lane_change_lanes == getLaneChangeLanes(d.current_lanes, p, d, garbage)
      r == getSafePath(lane_change_lanes, NoPath, d)
  IN [status_ EXCEPT !.current_lanes = d.current_lanes,
                     !.lane_change_lanes = lane_change_lanes,
                     !.is_safe = r.found_safe_path,
                     !.lane_change_path = r.safe_path]

\* ------------------------------------------------------------ isAbortState
isAbortStateNoSubState ==
  IF ~parameters_.enable_abort_lane_change THEN FALSE
  ELSE IF abort_path_ = NullPath THEN FALSE
  ELSE TRUE
isAbortStateOfNullPath ==
  IF ~parameters_.enable_abort_lane_change THEN FALSE
  ELSE IF current_lane_change_state_ # "Abort" THEN FALSE
  ELSE IF abort_path_ = NullPath THEN TRUE
  ELSE FALSE
isAbortState ==
  IF ~parameters_.enable_abort_lane_change THEN FALSE
  ELSE IF current_lane_change_state_ # "Abort" THEN FALSE
  ELSE IF abort_path_ = NullPath THEN FALSE
  ELSE TRUE

\* ---------------------------------------------------------- processOnEntry
processOnEntry(p, d, garbage) ==
  /\ phase = "idle"
  /\ is_waiting_approval_' = IF USE_OLD_ARCHITECTURE THEN is_waiting_approval_ ELSE TRUE
  /\ current_lane_change_state_' = "Normal"
  /\ status_' = updateLaneChangeStatus(p, d, garbage)
  /\ phase' = "data"
  /\ obs' = [Obs("processOnEntry", FALSE, p, Search(p, d, garbage), NoCycle)
               EXCEPT !.fault =
                 EmptyFront(getLaneChangeLanesReadsFront(d.current_lanes, p))]
  /\ UNCHANGED <<build, current_state_, is_activated_, abort_path_,
                 is_abort_approval_requested_, is_abort_path_approved_,
                 is_abort_condition_satisfied_, avoidance_data_, path_candidate_,
                 prev_approved_path_, rtc, rtc_path, output>>

\* ----------------------------------------------------------- processOnExit
\* resetParameters, and what SceneModuleInterface::onExit does around it: the
\* registration is removed, the module is idle again
resetParametersKeepsAbortPath ==
  /\ is_abort_path_approved_' = FALSE
  /\ is_abort_approval_requested_' = FALSE
  /\ current_lane_change_state_' = "Normal"
  /\ abort_path_' = abort_path_
  /\ path_candidate_' = NoOutput
resetParameters ==
  /\ is_abort_path_approved_' = FALSE
  /\ is_abort_approval_requested_' = FALSE
  /\ current_lane_change_state_' = "Normal"
  /\ abort_path_' = NullPath
  /\ path_candidate_' = NoOutput
processOnExit ==
  /\ phase = "data"
  /\ resetParameters
  /\ rtc' = "none"
  /\ rtc_path' = NoOutput
  /\ is_waiting_approval_' = FALSE
  /\ current_state_' = "IDLE"
  /\ phase' = "idle"
  /\ output' = NoOutput
  /\ obs' = Did("processOnExit")
  /\ UNCHANGED <<build, is_activated_, is_abort_condition_satisfied_, status_,
                 avoidance_data_, prev_approved_path_>>

\* ------------------------------------------------------------ planCandidate
planCandidate(p, d, garbage, status) ==
  LET lane_change_lanes == getLaneChangeLanes(d.current_lanes, p, d, garbage)
      selected_path == IF USE_OLD_ARCHITECTURE
                       THEN getSafePath(lane_change_lanes, NoPath, d).safe_path
                       ELSE status.lane_change_path
  IN IF lane_change_lanes = << >> THEN NoOutput
     ELSE IF isAbortState THEN Path("abort", abort_path_, FALSE)
     ELSE IF selected_path = NoPath THEN NoOutput
     ELSE Path("lane_change", selected_path, FALSE)

\* ----------------------------------------------------- planWaitingApproval
\* the deceleration point put into the output path ahead of the front target
\* object
insertDecelPointNever(out) == out
insertDecelPoint(out) ==
  [out EXCEPT !.stop = out.stop \/ avoidance_data_.target_objects # << >>]
\* within: isEgoWithinOriginalLane (read by the old architecture only)
planWaitingApproval(p, d, garbage, within) ==
  /\ phase = "plan"
  /\ ~runsPlan
  /\ LET prev == IF USE_OLD_ARCHITECTURE
                 THEN IF within THEN Path("reference", NoPath, FALSE)
                      ELSE prev_approved_path_
                 ELSE Path("previous", NoPath, FALSE)
         status == IF USE_OLD_ARCHITECTURE THEN status_
                   ELSE updateLaneChangeStatus(p, d, garbage)
         candidate == planCandidate(p, d, garbage, status)
     IN /\ prev_approved_path_' = prev
        /\ output' = insertDecelPoint(prev)
        /\ status_' = status
        /\ path_candidate_' = candidate
        /\ rtc' = IF candidate = NoOutput THEN rtc ELSE registered(rtc)
        /\ rtc_path' = IF candidate # NoOutput /\ rtc = "none" THEN candidate
                       ELSE rtc_path
  /\ is_waiting_approval_' = TRUE
  /\ is_abort_path_approved_' = FALSE
  /\ phase' = "state"
  /\ obs' = [Obs("planWaitingApproval", FALSE, p,
                  [NoGate EXCEPT
                     !.found_safe_path = Search(p, d, garbage).found_safe_path],
                  NoCycle)
               EXCEPT !.fault =
                 EmptyFront(getLaneChangeLanesReadsFront(d.current_lanes, p))]
  /\ UNCHANGED <<build, current_state_, is_activated_, current_lane_change_state_,
                 abort_path_, is_abort_approval_requested_,
                 is_abort_condition_satisfied_, avoidance_data_>>

\* -------------------------------------------------------- resetPathIfAbort
\* second: what the isActivated() call of this function reads; shift: the sign
\* of util::lane_change::getLateralShift(*abort_path_).
\* Yields the flags and the registration it leaves.
resetPathIfAbortApprovesUnrequested(second, shift) ==
  IF second
  THEN [requested |-> is_abort_approval_requested_, approved |-> TRUE,
        waiting |-> FALSE, rtc |-> "activated"]
  ELSE [requested |-> TRUE, approved |-> FALSE, waiting |-> TRUE,
        rtc |-> IF rtc = "none" THEN "none" ELSE "waiting"]
resetPathIfAbort(second, shift) ==
  IF ~is_abort_approval_requested_
  THEN [requested |-> TRUE, approved |-> FALSE, waiting |-> is_waiting_approval_,
        rtc |-> IF USE_OLD_ARCHITECTURE /\ shift = 0 THEN rtc ELSE "none"]
  ELSE IF second
  THEN [requested |-> TRUE, approved |-> TRUE, waiting |-> FALSE, rtc |-> "activated"]
  ELSE [requested |-> TRUE, approved |-> FALSE, waiting |-> TRUE,
        rtc |-> IF rtc = "none" THEN "none" ELSE "waiting"]

\* -------------------------------------------------------------------- plan
\* i.valid: isValidPath(path); i.slow_near_end: isNearEndOfLane() &&
\* isCurrentVelocityLow(); i.second and i.shift: what resetPathIfAbort reads;
\* i.signalling: the turn signal of the output is left or right, so that
\* updateSteeringFactorPtr registers the request again
planAbortWithoutSubState(i) ==
  /\ phase = "plan"
  /\ runsPlan
  /\ path_candidate_' = NoOutput
  /\ is_activated_' = isActivated
  /\ phase' = "state"
  /\ obs' = Did("plan")
  /\ IF ~i.valid
     THEN /\ status_' = [status_ EXCEPT !.is_valid_path = FALSE]
          /\ output' = Path("empty", NoPath, FALSE)
          /\ UNCHANGED <<is_abort_approval_requested_, is_abort_path_approved_,
                         is_waiting_approval_, rtc, rtc_path, prev_approved_path_>>
     ELSE LET stop == is_abort_condition_satisfied_ /\ i.slow_near_end
              r == IF isAbortStateNoSubState THEN resetPathIfAbort(i.second, i.shift)
                   ELSE [requested |-> is_abort_approval_requested_,
                         approved |-> is_abort_path_approved_,
                         waiting |-> is_waiting_approval_, rtc |-> rtc]
              path == IF isAbortStateNoSubState /\ is_activated_'
                      THEN Path("abort", abort_path_, FALSE)
                      ELSE Path("lane_change", status_.lane_change_path, stop)
          IN /\ status_' = [status_ EXCEPT !.is_valid_path = TRUE]
             /\ is_abort_approval_requested_' = r.requested
             /\ is_abort_path_approved_' = r.approved
             /\ output' = path
             /\ prev_approved_path_' = IF USE_OLD_ARCHITECTURE THEN path
                                       ELSE Path("previous", NoPath, FALSE)
             /\ rtc' = IF i.signalling THEN registered(r.rtc) ELSE r.rtc
             /\ rtc_path' = IF r.rtc # "none" THEN rtc_path
                            ELSE IF ~i.signalling THEN NoOutput
                            ELSE IF isAbortStateNoSubState
                            THEN Path("abort", abort_path_, FALSE)
                            ELSE Path("lane_change", status_.lane_change_path, FALSE)
             /\ is_waiting_approval_' = FALSE
  /\ UNCHANGED <<build, current_state_, current_lane_change_state_, abort_path_,
                 is_abort_condition_satisfied_, avoidance_data_>>
plan(i) ==
  /\ phase = "plan"
  /\ runsPlan
  /\ path_candidate_' = NoOutput
  /\ is_activated_' = isActivated
  /\ phase' = "state"
  /\ obs' = Did("plan")
  /\ IF ~i.valid
     THEN /\ status_' = [status_ EXCEPT !.is_valid_path = FALSE]
          /\ output' = Path("empty", NoPath, FALSE)
          /\ UNCHANGED <<is_abort_approval_requested_, is_abort_path_approved_,
                         is_waiting_approval_, rtc, rtc_path, prev_approved_path_>>
     ELSE LET stop == is_abort_condition_satisfied_ /\ i.slow_near_end
              r == IF isAbortState THEN resetPathIfAbort(i.second, i.shift)
                   ELSE [requested |-> is_abort_approval_requested_,
                         approved |-> is_abort_path_approved_,
                         waiting |-> is_waiting_approval_, rtc |-> rtc]
              path == IF isAbortState /\ is_activated_'
                      THEN Path("abort", abort_path_, FALSE)
                      ELSE Path("lane_change", status_.lane_change_path, stop)
          IN /\ status_' = [status_ EXCEPT !.is_valid_path = TRUE]
             /\ is_abort_approval_requested_' = r.requested
             /\ is_abort_path_approved_' = r.approved
             /\ output' = path
             /\ prev_approved_path_' = IF USE_OLD_ARCHITECTURE THEN path
                                       ELSE Path("previous", NoPath, FALSE)
             /\ rtc' = IF i.signalling THEN registered(r.rtc) ELSE r.rtc
             /\ rtc_path' = IF r.rtc # "none" THEN rtc_path
                            ELSE IF ~i.signalling THEN NoOutput
                            ELSE IF isAbortState
                            THEN Path("abort", abort_path_, FALSE)
                            ELSE Path("lane_change", status_.lane_change_path, FALSE)
             /\ is_waiting_approval_' = FALSE
  /\ UNCHANGED <<build, current_state_, current_lane_change_state_, abort_path_,
                 is_abort_condition_satisfied_, avoidance_data_>>

\* the inputs of a plan() call; an input the call does not read in the state it
\* is made in is left at its default
PlanInput(valid, slow_near_end, second, shift, signalling) ==
  [valid |-> valid, slow_near_end |-> slow_near_end, second |-> second,
   shift |-> shift, signalling |-> signalling]
PlanData ==
  {PlanInput(FALSE, FALSE, isActivated, 0, FALSE)} \cup
  {PlanInput(TRUE, slow, second, shift, signalling) :
     slow \in IF is_abort_condition_satisfied_ THEN BOOLEAN ELSE {FALSE},
     second \in IF isAbortState /\ is_abort_approval_requested_ /\ rtc # "none"
                THEN BOOLEAN ELSE {isActivated},
     shift \in IF isAbortState /\ ~is_abort_approval_requested_
                  /\ USE_OLD_ARCHITECTURE
               THEN {-1, 0, 1} ELSE {0},
     signalling \in BOOLEAN}

\* ----------------------------------------------- isAbortConditionSatisfied
\* e.is_path_safe: isApprovedPathSafe; e.is_within_original_lane:
\* isEgoWithinOriginalLane; e.found_abort_path: what getAbortPaths returns
\* (NullPath: none). Yields the return value, the sub-state and the abort path
\* it leaves, and whether it re-checked the safety of the path.
Verdict(ret, state, abort_path, asked) ==
  [ret |-> ret, state |-> state, abort_path |-> abort_path, asked |-> asked]
isAbortConditionSatisfiedNoSnapshot(e) ==
  IF ~parameters_.enable_cancel_lane_change
  THEN Verdict(FALSE, "Normal", abort_path_, FALSE)
  ELSE IF ~e.is_path_safe
  THEN IF e.is_within_original_lane
       THEN Verdict(TRUE, "Cancel", abort_path_, TRUE)
       ELSE IF ~parameters_.enable_abort_lane_change
       THEN Verdict(FALSE, "Stop", abort_path_, TRUE)
       ELSE IF e.found_abort_path = NullPath /\ ~is_abort_path_approved_
       THEN Verdict(TRUE, "Stop", abort_path_, TRUE)
       ELSE Verdict(TRUE, "Abort",
                    IF ~is_abort_path_approved_ THEN e.found_abort_path
                    ELSE abort_path_, TRUE)
  ELSE Verdict(FALSE, "Normal", abort_path_, TRUE)
isAbortConditionSatisfiedNoEnable(e) ==
  IF ~parameters_.enable_cancel_lane_change
  THEN Verdict(FALSE, "Normal", abort_path_, FALSE)
  ELSE IF ~is_activated_ THEN Verdict(FALSE, "Normal", abort_path_, FALSE)
  ELSE IF ~e.is_path_safe
  THEN IF e.is_within_original_lane
       THEN Verdict(TRUE, "Cancel", abort_path_, TRUE)
       ELSE IF e.found_abort_path = NullPath /\ ~is_abort_path_approved_
       THEN Verdict(TRUE, "Stop", abort_path_, TRUE)
       ELSE Verdict(TRUE, "Abort",
                    IF ~is_abort_path_approved_ THEN e.found_abort_path
                    ELSE abort_path_, TRUE)
  ELSE Verdict(FALSE, "Normal", abort_path_, TRUE)
isAbortConditionSatisfiedNoCancel(e) ==
  IF ~parameters_.enable_cancel_lane_change
  THEN Verdict(FALSE, "Normal", abort_path_, FALSE)
  ELSE IF ~is_activated_ THEN Verdict(FALSE, "Normal", abort_path_, FALSE)
  ELSE IF ~e.is_path_safe
  THEN IF ~parameters_.enable_abort_lane_change
       THEN Verdict(FALSE, "Stop", abort_path_, TRUE)
       ELSE IF e.found_abort_path = NullPath /\ ~is_abort_path_approved_
       THEN Verdict(TRUE, "Stop", abort_path_, TRUE)
       ELSE Verdict(TRUE, "Abort",
                    IF ~is_abort_path_approved_ THEN e.found_abort_path
                    ELSE abort_path_, TRUE)
  ELSE Verdict(FALSE, "Normal", abort_path_, TRUE)
isAbortConditionSatisfiedNoStop(e) ==
  IF ~parameters_.enable_cancel_lane_change
  THEN Verdict(FALSE, "Normal", abort_path_, FALSE)
  ELSE IF ~is_activated_ THEN Verdict(FALSE, "Normal", abort_path_, FALSE)
  ELSE IF ~e.is_path_safe
  THEN IF e.is_within_original_lane
       THEN Verdict(TRUE, "Cancel", abort_path_, TRUE)
       ELSE IF ~parameters_.enable_abort_lane_change
       THEN Verdict(FALSE, "Stop", abort_path_, TRUE)
       ELSE Verdict(TRUE, "Abort",
                    IF ~is_abort_path_approved_ THEN e.found_abort_path
                    ELSE abort_path_, TRUE)
  ELSE Verdict(FALSE, "Normal", abort_path_, TRUE)
isAbortConditionSatisfied(e) ==
  IF ~parameters_.enable_cancel_lane_change
  THEN Verdict(FALSE, "Normal", abort_path_, FALSE)
  ELSE IF ~is_activated_ THEN Verdict(FALSE, "Normal", abort_path_, FALSE)
  ELSE IF ~e.is_path_safe
  THEN IF e.is_within_original_lane
       THEN Verdict(TRUE, "Cancel", abort_path_, TRUE)
       ELSE IF ~parameters_.enable_abort_lane_change
       THEN Verdict(FALSE, "Stop", abort_path_, TRUE)
       ELSE IF e.found_abort_path = NullPath /\ ~is_abort_path_approved_
       THEN Verdict(TRUE, "Stop", abort_path_, TRUE)
       ELSE Verdict(TRUE, "Abort",
                    IF ~is_abort_path_approved_ THEN e.found_abort_path
                    ELSE abort_path_, TRUE)
  ELSE Verdict(FALSE, "Normal", abort_path_, TRUE)

\* ------------------------------------------------------------ isValidPath()
isValidPathAlways == TRUE
isValidPath == status_.is_valid_path

\* ------------------------------------------------------------- updateState
\* e: what this call reads of the planner data: is_path_safe,
\* is_within_original_lane, found_abort_path, slow_near_end (isNearEndOfLane()
\* && isCurrentVelocityLow()), finished (hasFinishedLaneChange), end
\* (calcSignedArcLength to the shift-line end of the path of the status)
updateStateNoMargin(p, e, garbage) ==
  /\ phase = "state"
  /\ phase' = "data"
  /\ LET object_num == Len(avoidance_data_.target_objects)
         to_front_object_distance ==
           front(avoidance_data_.target_objects, garbage).longitudinal
         lane_change_finish_before_object == to_front_object_distance > e.end
         a == isAbortConditionSatisfied(e)
         front_fault ==
           EmptyFront(isValidPath /\ is_waiting_approval_
                      /\ ~(p.execute_object_num > object_num))
         keep(state) ==
           /\ current_state_' = state
           /\ obs' = [Obs("updateState", FALSE, p, NoGate,
                          [NoCycle EXCEPT !.end = e.end])
                      EXCEPT !.fault = front_fault]
           /\ UNCHANGED <<current_lane_change_state_, abort_path_,
                          is_abort_condition_satisfied_>>
         checked(state) ==
           /\ current_state_' = state
           /\ current_lane_change_state_' = a.state
           /\ abort_path_' = a.abort_path
           /\ is_abort_condition_satisfied_' = FALSE
           /\ obs' = [Obs("updateState", a.ret, p, NoGate,
                          [NoCycle EXCEPT !.called = TRUE, !.asked = a.asked,
                             !.is_path_safe = e.is_path_safe,
                             !.is_within_original_lane = e.is_within_original_lane,
                             !.found_abort_path = e.found_abort_path,
                             !.slow_near_end = e.slow_near_end,
                             !.finished = e.finished, !.end = e.end])
                      EXCEPT !.fault = front_fault]
     IN IF ~isValidPath THEN keep("SUCCESS")
        ELSE IF is_waiting_approval_ /\ p.execute_object_num > object_num
        THEN keep("SUCCESS")
        ELSE IF is_waiting_approval_ /\ ~lane_change_finish_before_object
                /\ p.execute_only_when_lane_change_finish_before_object
        THEN keep("FAILURE")
        ELSE IF isAbortState /\ ~e.is_within_original_lane
        THEN /\ current_state_' = "RUNNING"
             /\ obs' = [Obs("updateState", FALSE, p, NoGate,
                            [NoCycle EXCEPT !.is_within_original_lane = FALSE,
                                            !.finished = e.finished,
                                            !.end = e.end])
                        EXCEPT !.fault = front_fault]
             /\ UNCHANGED <<current_lane_change_state_, abort_path_,
                            is_abort_condition_satisfied_>>
        ELSE IF a.ret
        THEN IF e.slow_near_end \/ ~e.is_within_original_lane
             THEN checked("RUNNING") ELSE checked("FAILURE")
        ELSE IF e.finished THEN checked("SUCCESS")
        ELSE checked("RUNNING")
  /\ UNCHANGED <<build, is_waiting_approval_, is_activated_,
                 is_abort_approval_requested_, is_abort_path_approved_, status_,
                 avoidance_data_, path_candidate_, prev_approved_path_, rtc,
                 rtc_path, output>>
updateState(p, e, garbage) ==
  /\ phase = "state"
  /\ phase' = "data"
  /\ LET object_num == Len(avoidance_data_.target_objects)
         to_front_object_distance ==
           front(avoidance_data_.target_objects, garbage).longitudinal
         lane_change_finish_before_object == to_front_object_distance > e.end
         a == isAbortConditionSatisfied(e)
         front_fault ==
           EmptyFront(isValidPath /\ is_waiting_approval_
                      /\ ~(p.execute_object_num > object_num))
         keep(state) ==
           /\ current_state_' = state
           /\ obs' = [Obs("updateState", FALSE, p, NoGate,
                          [NoCycle EXCEPT !.end = e.end])
                      EXCEPT !.fault = front_fault]
           /\ UNCHANGED <<current_lane_change_state_, abort_path_,
                          is_abort_condition_satisfied_>>
         checked(state) ==
           /\ current_state_' = state
           /\ current_lane_change_state_' = a.state
           /\ abort_path_' = a.abort_path
           /\ is_abort_condition_satisfied_' = FALSE
           /\ obs' = [Obs("updateState", a.ret, p, NoGate,
                          [NoCycle EXCEPT !.called = TRUE, !.asked = a.asked,
                             !.is_path_safe = e.is_path_safe,
                             !.is_within_original_lane = e.is_within_original_lane,
                             !.found_abort_path = e.found_abort_path,
                             !.slow_near_end = e.slow_near_end,
                             !.finished = e.finished, !.end = e.end])
                      EXCEPT !.fault = front_fault]
     IN IF ~isValidPath THEN keep("SUCCESS")
        ELSE IF is_waiting_approval_ /\ p.execute_object_num > object_num
        THEN keep("SUCCESS")
        ELSE IF is_waiting_approval_
                /\ p.execute_object_longitudinal_margin > to_front_object_distance
        THEN keep("FAILURE")
        ELSE IF is_waiting_approval_ /\ ~lane_change_finish_before_object
                /\ p.execute_only_when_lane_change_finish_before_object
        THEN keep("FAILURE")
        ELSE IF isAbortState /\ ~e.is_within_original_lane
        THEN /\ current_state_' = "RUNNING"
             /\ obs' = [Obs("updateState", FALSE, p, NoGate,
                            [NoCycle EXCEPT !.is_within_original_lane = FALSE,
                                            !.finished = e.finished,
                                            !.end = e.end])
                        EXCEPT !.fault = front_fault]
             /\ UNCHANGED <<current_lane_change_state_, abort_path_,
                            is_abort_condition_satisfied_>>
        ELSE IF a.ret
        THEN IF e.slow_near_end \/ ~e.is_within_original_lane
             THEN checked("RUNNING") ELSE checked("FAILURE")
        ELSE IF e.finished THEN checked("SUCCESS")
        ELSE checked("RUNNING")
  /\ UNCHANGED <<build, is_waiting_approval_, is_activated_,
                 is_abort_approval_requested_, is_abort_path_approved_, status_,
                 avoidance_data_, path_candidate_, prev_approved_path_, rtc,
                 rtc_path, output>>

MaxCycleObjects == 1
\* the thresholds an updateState() call reads, made with front object
\* `garbage` when the list is empty: none unless it is made while waiting for
\* approval with a valid path. The margin is as the parameters hold it, read
\* or not; the flag is left at its default behind a check that returns.
StateTrigger ==
  IF status_.is_valid_path /\ is_waiting_approval_
  THEN {p \in TriggerParameters :
          /\ p.execute_object_num <= Len(avoidance_data_.target_objects) + 1
          /\ (p.execute_object_num > Len(avoidance_data_.target_objects) =>
                ~p.execute_only_when_lane_change_finish_before_object)
          /\ (\A g \in Garbage(p) : p.execute_object_longitudinal_margin > g.longitudinal)
                => ~p.execute_only_when_lane_change_finish_before_object}
  ELSE {NoTrigger}
\* AbortPathIds number the abort paths getAbortPaths computes: a newly computed
\* one gets the first number that is not the stored one's
FreshAbortPath ==
  CHOOSE id \in AbortPathIds :
     /\ id # abort_path_
     /\ \A other \in AbortPathIds : other # abort_path_ => id <= other
EgoDefault == [is_path_safe |-> TRUE, is_within_original_lane |-> TRUE,
               found_abort_path |-> NullPath, slow_near_end |-> FALSE,
               finished |-> FALSE, end |-> 0]
Ego(safe, within, found, slow, finished, end) ==
  [is_path_safe |-> safe, is_within_original_lane |-> within,
   found_abort_path |-> found, slow_near_end |-> slow, finished |-> finished,
   end |-> end]
\* the inputs of an updateState() call made with thresholds p; an input the
\* call does not read in the state it is made in is left at its default:
\*   end        read by the last trigger check of a waiting module
\*   is_path_safe   read when cancel is enabled and the last plan() was activated
\*   is_within_original_lane   read in the Abort sub-state and of an unsafe path
\*   found_abort_path   read of an unsafe path, outside the lane (with abort
\*                      disabled the planner data holds it unread)
\*   slow_near_end      read of an unsafe path within the lane
\*   finished   read when isAbortConditionSatisfied returns false (the
\*              planner data holds it unread otherwise)
EgoData(p, garbage) ==
  IF ~status_.is_valid_path THEN {EgoDefault}
  ELSE LET ends == IF is_waiting_approval_
                      /\ p.execute_only_when_lane_change_finish_before_object
                   THEN Distances ELSE {0}
           safe == {Ego(TRUE, w, NullPath, FALSE, f, n) :
                      w \in IF isAbortState THEN BOOLEAN ELSE {TRUE},
                      f \in BOOLEAN, n \in ends}
           cancel == {Ego(FALSE, TRUE, NullPath, s, f, n) :
                        s \in BOOLEAN, f \in BOOLEAN, n \in ends}
           outside == {Ego(FALSE, FALSE, a, FALSE, f, n) :
                         a \in {NullPath, FreshAbortPath}, f \in BOOLEAN,
                         n \in ends}
           to_front_object_distance ==
             front(avoidance_data_.target_objects, garbage).longitudinal
           \* a trigger check of a waiting module returns before any other read
           returns(end) ==
             /\ is_waiting_approval_
             /\ \/ p.execute_object_num > Len(avoidance_data_.target_objects)
                \/ p.execute_object_longitudinal_margin > to_front_object_distance
                \/ /\ p.execute_only_when_lane_change_finish_before_object
                   /\ ~(to_front_object_distance > end)
       IN {e \in IF parameters_.enable_cancel_lane_change /\ is_activated_
                 THEN safe \cup cancel \cup outside ELSE safe :
             returns(e.end) => e = [EgoDefault EXCEPT !.end = e.end]}
\* the front object an updateState() call is made with: front() is read by a
\* waiting module only
StateGarbage(p) ==
  IF status_.is_valid_path /\ is_waiting_approval_ THEN Garbage(p)
  ELSE {[longitudinal |-> 0, lateral |-> 1]}
\* the thresholds a lane search reads: execute_object_num
SearchTrigger ==
  {p \in TriggerParameters : /\ p.execute_object_longitudinal_margin = 0
                             /\ ~p.execute_only_when_lane_change_finish_before_object}
CycleTrigger == {p \in SearchTrigger : p.execute_object_num <= MaxCycleObjects}
\* the data a lane and candidate search reads: not the shift-line end
SearchData == {d \in CycleData : d.end = 0}

\* --------------------------------------------------------- specifications
\* The module driven through its cycles: updateData, then plan or
\* planWaitingApproval, then updateState; a finished module is only exited.
\* Each step repeats the guard of its call ahead of the inputs it draws.
Run == current_state_ \notin {"SUCCESS", "FAILURE"}
\* the objects of the cycles are detected ones on the right of the path
CycleObjectLists == {l \in ObjectLists(MaxCycleObjects) :
                       /\ \A i \in 1..Len(l[1]) : isOnRight(l[1][i])
                       /\ l[2] = << >>}
CycleUpdateData == Run /\ \E l \in CycleObjectLists : updateData(l[1], l[2])
Entry ==
  /\ phase = "idle"
  /\ \E p \in CycleTrigger : \E g \in Garbage(p) :
        \E d \in SearchData : processOnEntry(p, d, g)
WaitingApproval ==
  /\ phase = "plan" /\ ~runsPlan
  /\ \E p \in CycleTrigger : \E g \in Garbage(p) :
        \E d \in SearchData, within \in IF USE_OLD_ARCHITECTURE THEN BOOLEAN ELSE {TRUE} :
           planWaitingApproval(p, d, g, within)
Plan == phase = "plan" /\ runsPlan /\ \E i \in PlanData : plan(i)
UpdateState ==
  /\ phase = "state"
  /\ \E p \in StateTrigger : \E g \in StateGarbage(p) : \E e \in EgoData(p, g) :
        updateState(p, e, g)
Command == Run /\ rtcCommand
Next == \/ CycleUpdateData \/ Entry \/ WaitingApproval \/ Plan \/ UpdateState
        \/ Command \/ processOnExit
Spec == Init /\ [][Next]_vars

\* The gates, asked of an idle module and of a running one over every object
\* list and every lane and candidate data; the module is launched and driven
\* through an undisturbed lane change.
GateInit == Init /\ ~USE_OLD_ARCHITECTURE
            /\ parameters_ = [enable_cancel_lane_change |-> TRUE,
                              enable_abort_lane_change |-> TRUE]
Undisturbed ==
  [current_lanes |-> LaneSequence(1), check |-> 1, left |-> {1}, right |-> {1},
   valid_paths |-> [i \in 1..MaxPaths |-> i], found_safe_path |-> TRUE, end |-> 0]
Asks == phase = "idle" \/ current_state_ = "RUNNING"
GateData == IF current_state_ = "RUNNING" THEN {Undisturbed} ELSE PlannerData
DataNext == \E l \in AllObjectLists : updateData(l[1], l[2])
RequestedNext ==
  /\ Asks
  /\ \E p \in TriggerParameters : \E g \in Garbage(p) :
        \E d \in GateData : isExecutionRequested(p, d, g)
ReadyNext ==
  /\ Asks
  /\ \E p \in SearchTrigger : \E g \in Garbage(p) :
        \E d \in GateData : isExecutionReady(p, d, g)
GateEntry == \E g \in Garbage(NoTrigger) : processOnEntry(NoTrigger, Undisturbed, g)
GateWaitingApproval ==
  \E g \in Garbage(NoTrigger) : planWaitingApproval(NoTrigger, Undisturbed, g, TRUE)
GatePlan == plan([valid |-> TRUE, slow_near_end |-> FALSE, second |-> isActivated,
                  shift |-> 0, signalling |-> TRUE])
GateUpdateState ==
  \E g \in Garbage(NoTrigger) : updateState(NoTrigger, EgoDefault, g)
GateNext == \/ DataNext \/ RequestedNext \/ ReadyNext \/ Answered \/ GateEntry
            \/ GateWaitingApproval \/ GatePlan \/ GateUpdateState \/ rtcCommand
GateSpec == GateInit /\ [][GateNext]_vars

\* ------------------------------------------------------------- properties
target_objects == avoidance_data_.target_objects
asked_requested == obs.op = "isExecutionRequested"
margin_violated ==
  /\ target_objects # << >>
  /\ target_objects[1].longitudinal < obs.p.execute_object_longitudinal_margin

\* C1 (as stated): in every reachable module state, if the front target
\* object's longitudinal distance is less than
\* execute_object_longitudinal_margin, isExecutionRequested returns false.
C1_Stated == asked_requested /\ margin_violated => ~obs.ret
\* C1 (amended): while the module is not Running, if the front target object's
\* longitudinal distance is less than execute_object_longitudinal_margin,
\* isExecutionRequested returns false.
C1_NotRunningMarginBlocksRequest ==
  asked_requested /\ current_state_ # "RUNNING" /\ margin_violated => ~obs.ret
\* an idle module is asked with a valid candidate and enough objects, the front
\* one nearer than the margin
C1_Witness ==
  /\ asked_requested /\ current_state_ # "RUNNING" /\ margin_violated
  /\ obs.gate.found_valid_path
  /\ Len(target_objects) >= obs.p.execute_object_num
  /\ ~obs.ret

\* C2: while the module is not Running, isExecutionRequested returns true if
\* and only if getSafePath found a valid candidate, the target-object count is
\* >= execute_object_num, the front object's longitudinal distance is >=
\* execute_object_longitudinal_margin, and
\* execute_only_when_lane_change_finish_before_object is false or the front
\* object's distance is strictly greater than the distance to the selected
\* path's shift-line end.
C2_RequestedIffAllChecksPass ==
  asked_requested /\ current_state_ # "RUNNING" =>
    (obs.ret <=>
       /\ obs.gate.found_valid_path
       /\ Len(target_objects) >= obs.p.execute_object_num
       /\ target_objects # << >>
       /\ target_objects[1].longitudinal >= obs.p.execute_object_longitudinal_margin
       /\ \/ ~obs.p.execute_only_when_lane_change_finish_before_object
          \/ target_objects[1].longitudinal > obs.gate.end)
\* a request granted with every threshold in force
C2_Witness ==
  /\ asked_requested /\ current_state_ # "RUNNING" /\ obs.ret
  /\ obs.p.execute_object_num = MaxObjects
  /\ obs.p.execute_object_longitudinal_margin > 0
  /\ obs.p.execute_only_when_lane_change_finish_before_object

\* C3: getLaneChangeLanes returns an empty lane sequence whenever the number of
\* target objects is below execute_object_num, whether or not an adjacent lane
\* exists, and also when the current lane sequence is empty.
C3_NoLanesBelowObjectNum ==
  /\ obs.gate.searched
  /\ \/ Len(target_objects) < obs.p.execute_object_num
     \/ obs.gate.current_lanes = << >>
  => obs.gate.lane_change_lanes = << >>
\* too few objects, the front one on the right and a left neighbour at the
\* first lanelet of the range
C3_Witness ==
  /\ obs.gate.searched
  /\ target_objects # << >> /\ isOnRight(target_objects[1])
  /\ Len(target_objects) < obs.p.execute_object_num
  /\ obs.gate.current_lanes # << >> /\ 1 \in obs.gate.left
  /\ obs.gate.lane_change_lanes = << >>

\* C4 (as stated): for every call of getSafePath, if the returned safety flag
\* is true the selected path is the last element of the generated candidate
\* list, and if it is false the selected path is the first element of that list.
C4_Stated ==
  obs.gate.searched =>
    /\ obs.gate.valid_paths # << >>
    /\ obs.gate.safe_path =
         IF obs.gate.found_safe_path THEN back(obs.gate.valid_paths)
         ELSE obs.gate.valid_paths[1]
\* C4 (amended): for every call of getSafePath that returns found_valid = true,
\* the selected path is the last candidate if the safety flag is true and the
\* first if it is false; a call that returns found_valid = false returns the
\* safety flag false and leaves the selected path as it was passed in.
C4_SelectsLastSafeElseFirst ==
  obs.gate.searched =>
    IF obs.gate.found_valid_path
    THEN /\ obs.gate.valid_paths # << >>
         /\ obs.gate.safe_path =
              IF obs.gate.found_safe_path THEN back(obs.gate.valid_paths)
              ELSE obs.gate.valid_paths[1]
    ELSE ~obs.gate.found_safe_path /\ obs.gate.safe_path = NoPath
\* a forced candidate: several candidates, none safe, the first one selected
C4_Witness ==
  /\ obs.gate.searched /\ obs.gate.found_valid_path /\ ~obs.gate.found_safe_path
  /\ Len(obs.gate.valid_paths) = MaxPaths
  /\ obs.gate.safe_path = obs.gate.valid_paths[1]
  /\ obs.gate.safe_path # back(obs.gate.valid_paths)

\* C10: after every updateData call the target-object list is sorted by
\* non-decreasing longitudinal distance, objects appended by the
\* detection-loss compensation included, so that front() is the nearest one.
C10_TargetObjectsSorted ==
  \A i, j \in 1..Len(target_objects) :
     i < j => target_objects[i].longitudinal <= target_objects[j].longitudinal
\* an updateData that appended a lost object and left two objects at
\* different distances
C10_Witness ==
  /\ obs.op = "updateData" /\ obs.lost > 0
  /\ Len(target_objects) = MaxObjects
  /\ target_objects[1].longitudinal < target_objects[Len(target_objects)].longitudinal

\* what an updateState call of a running, approved maneuver found
evaluated == obs.op = "updateState" /\ ~is_waiting_approval_ /\ obs.cycle.asked
unsafe_within == evaluated /\ ~obs.cycle.is_path_safe /\ obs.cycle.is_within_original_lane
unsafe_outside == evaluated /\ ~obs.cycle.is_path_safe /\ ~obs.cycle.is_within_original_lane
committed_path == Path("lane_change", status_.lane_change_path, FALSE)

\* C5: when enable_abort_lane_change is false the sub-state is never Abort and
\* isAbortState is never true, so that no abort path is computed, requested for
\* approval, offered as candidate or published.
C5_AbortDisabledNeverAborts ==
  ~parameters_.enable_abort_lane_change =>
    /\ current_lane_change_state_ # "Abort"
    /\ ~isAbortState
    /\ abort_path_ = NullPath
    /\ ~is_abort_approval_requested_ /\ ~is_abort_path_approved_
    /\ output.kind # "abort" /\ path_candidate_.kind # "abort"
\* abort disabled, the path found unsafe with the ego outside the original lane
C5_Witness ==
  /\ ~parameters_.enable_abort_lane_change
  /\ unsafe_outside
  /\ current_lane_change_state_ = "Stop"

C7_AbortPathOnlyAfterFreshApproval ==
  obs.op = "plan" /\ output.kind = "abort" => is_abort_path_approved_

\* C8 (as stated): when the path is found unsafe with the ego outside the
\* original lane, abort enabled, no abort path found and none approved before,
\* the sub-state becomes Stop, the module state remains Running, and plan()
\* publishes the committed lane-change path, never an abort path and never an
\* empty output.
C8_Stated ==
  /\ unsafe_outside /\ parameters_.enable_abort_lane_change
       /\ obs.cycle.found_abort_path = NullPath /\ ~is_abort_path_approved_
     => current_lane_change_state_ = "Stop" /\ current_state_ = "RUNNING"
  /\ obs.op = "plan" /\ current_lane_change_state_ = "Stop"
       /\ parameters_.enable_abort_lane_change
     => output = committed_path
\* C8 (amended): when the path is found unsafe with the ego outside the
\* original lane, abort enabled, no abort path found and none approved before,
\* the sub-state becomes Stop and the module state remains Running; plan()
\* publishes the committed lane-change path, never an abort path, unless it
\* finds the path invalid, in which case the output is empty.
C8_StopHoldsCommittedPath ==
  /\ unsafe_outside /\ parameters_.enable_abort_lane_change
       /\ obs.cycle.found_abort_path = NullPath /\ ~is_abort_path_approved_
     => current_lane_change_state_ = "Stop" /\ current_state_ = "RUNNING"
  /\ obs.op = "plan" /\ current_lane_change_state_ = "Stop"
       /\ parameters_.enable_abort_lane_change
     => IF status_.is_valid_path THEN output = committed_path
        ELSE output.kind = "empty"
\* plan() of a stopped maneuver, abort enabled
C8_Witness ==
  /\ obs.op = "plan" /\ current_lane_change_state_ = "Stop"
  /\ parameters_.enable_abort_lane_change /\ current_state_ = "RUNNING"
  /\ status_.lane_change_path # NoPath
  /\ output = committed_path

\* C9 (as stated): over the cycles of a running maneuver whose path is
\* re-evaluated as safe (sub-state Normal), the committed path of the status
\* does not change and plan() publishes exactly that path.
C9_Stated ==
  [][/\ (current_state_ = "RUNNING" /\ ~is_waiting_approval_
           /\ current_state_' = "RUNNING")
        => status_'.lane_change_path = status_.lane_change_path
     /\ (obs'.op = "plan" /\ current_lane_change_state_' = "Normal")
        => output' = Path("lane_change", status_'.lane_change_path, FALSE)]_vars
\* C9 (amended): over the cycles of a running maneuver whose path is
\* re-evaluated as safe (sub-state Normal), the committed path of the status
\* does not change, and plan() publishes exactly that path unless it finds the
\* path invalid, in which case the output is empty.
C9_CommittedPathStable ==
  [][/\ (current_state_ = "RUNNING" /\ ~is_waiting_approval_
           /\ current_state_' = "RUNNING")
        => status_'.lane_change_path = status_.lane_change_path
     /\ (obs'.op = "plan" /\ current_lane_change_state_' = "Normal")
        => IF status_'.is_valid_path
           THEN output' = Path("lane_change", status_'.lane_change_path, FALSE)
           ELSE output'.kind = "empty"]_vars
\* plan() of a running, approved maneuver with cancel enabled, sub-state Normal
C9_Witness ==
  /\ obs.op = "plan" /\ current_state_ = "RUNNING"
  /\ current_lane_change_state_ = "Normal" /\ is_activated_
  /\ parameters_.enable_cancel_lane_change
  /\ status_.lane_change_path # NoPath
  /\ output = committed_path

\* C11: in every reachable state, if the sub-state is Abort then the abort path
\* is non-null, also where no abort path was found in the cycle but one had
\* been approved earlier.
C11_AbortHasAbortPath ==
  current_lane_change_state_ = "Abort" => abort_path_ # NullPath
\* Abort entered in a cycle that found no abort path, on an earlier approval
C11_Witness ==
  /\ unsafe_outside /\ obs.cycle.found_abort_path = NullPath
  /\ is_abort_path_approved_
  /\ current_lane_change_state_ = "Abort" /\ abort_path_ # NullPath

\* C12: plan() copies a lane-change path or an abort path into the published
\* output only if the approval signal was observed activated in that same
\* cycle (is_activated_ is the observation plan() makes of it).
C12_PublishedOnlyWhenActivated ==
  obs.op = "plan" /\ output.kind \in {"lane_change", "abort"} => is_activated_

\* C13: when the pending path changes (the lane-change path replaced by an
\* abort path, or an abort path by a newly computed one) the registration is
\* invalidated before an approval is accepted for the new path: whenever
\* plan() accepts an approval for the abort path, the registration it reads
\* was issued for that very abort path.
C13_ApprovalAcceptedForRegisteredPath ==
  obs.op = "plan" /\ is_abort_path_approved_
    => rtc_path = Path("abort", abort_path_, FALSE)

\* C14: within one cycle the approval signal is read once and every decision
\* that depends on it uses that snapshot: a plan() that decides on a requested
\* abort approval marks the abort path approved exactly when the snapshot it
\* publishes by (is_activated_) is activated.
C14_SingleApprovalSnapshot ==
  [][obs'.op = "plan" /\ status_'.is_valid_path /\ isAbortState
       /\ is_abort_approval_requested_
     => (is_abort_path_approved_' <=> is_activated_')]_vars

C16_FrontReadOnlyOfNonEmptyList == ~obs.fault

\* C17: whenever the candidate selected by getSafePath is flagged unsafe,
\* isExecutionReady returns false, and a candidate flagged unsafe is never the
\* lane-change path that plan() publishes.
C17_UnsafeCandidateNeverPublished ==
  /\ obs.op = "isExecutionReady" /\ obs.gate.searched
       /\ ~obs.gate.found_safe_path
     => ~obs.ret
  /\ obs.op = "plan" /\ output.kind = "lane_change" /\ output.path # NoPath
     => status_.is_safe

\* C18: a gate call of a module that is not running gets found_valid = false
\* from getSafePath exactly when the target lane sequence is empty, the
\* target-object list is empty, or the generated candidate set is empty; then
\* found_safe is false too, the selected path is left as it was passed in, and
\* isExecutionRequested and isExecutionReady both answer false.
C18_NoValidPathMeansNoRequest ==
  obs.op \in {"isExecutionRequested", "isExecutionReady"} /\ obs.gate.searched
  => /\ ~obs.gate.found_valid_path
        <=> \/ obs.gate.lane_change_lanes = << >>
            \/ target_objects = << >>
            \/ obs.gate.valid_paths = << >>
     /\ ~obs.gate.found_valid_path
        => /\ ~obs.gate.found_safe_path
           /\ obs.gate.safe_path = NoPath
           /\ ~obs.ret
C18_Witness ==
  /\ obs.op = "isExecutionRequested" /\ obs.gate.searched
  /\ obs.gate.lane_change_lanes # << >> /\ target_objects # << >>
  /\ obs.gate.valid_paths = << >>
  /\ ~obs.gate.found_valid_path /\ ~obs.gate.found_safe_path
  /\ obs.gate.safe_path = NoPath /\ ~obs.ret

\* C19 (as stated): after every planWaitingApproval the output path is the
\* previous module's path, with a deceleration point exactly when there is a
\* target object, and the lane-change path is exposed as the path candidate
\* only.
C19_Stated ==
  obs.op = "planWaitingApproval"
  => /\ output.kind = "previous"
     /\ output.stop <=> target_objects # << >>
     /\ path_candidate_.kind \in {"none", "lane_change", "abort"}
\* C19 (amended): after every planWaitingApproval the output path is
\* prev_approved_path_ with a deceleration point added when there is a target
\* object; prev_approved_path_ is the previous module's path in the new
\* architecture, while the old architecture puts the reference path there when
\* the ego is within the original lane and otherwise keeps the path plan()
\* published last. The lane-change candidate of the cycle goes to the path
\* candidate.
C19_WaitingOutputIsPrevApprovedPath ==
  obs.op = "planWaitingApproval"
  => /\ output.kind = prev_approved_path_.kind
     /\ output.path = prev_approved_path_.path
     /\ output.stop <=> prev_approved_path_.stop \/ target_objects # << >>
     /\ ~USE_OLD_ARCHITECTURE => output.kind = "previous"
     /\ USE_OLD_ARCHITECTURE
        => output.kind \in {"none", "reference", "lane_change", "abort"}
     /\ path_candidate_.kind \in {"none", "lane_change", "abort"}
C19_Witness ==
  /\ obs.op = "planWaitingApproval" /\ USE_OLD_ARCHITECTURE
  /\ output.kind = "lane_change" /\ output.path # NoPath /\ output.stop
  /\ prev_approved_path_.kind = "lane_change"

\* C20: after processOnEntry, whatever an earlier maneuver left behind, both
\* abort flags are false, the sub-state is Normal, and the current lanes, the
\* target lanes, the selected path and the safety flag of status_ are what the
\* lane and candidate search of this call found.
C20_EntryStartsFromCleanStatus ==
  obs.op = "processOnEntry"
  => /\ ~is_abort_approval_requested_ /\ ~is_abort_path_approved_
     /\ current_lane_change_state_ = "Normal"
     /\ status_.current_lanes = obs.gate.current_lanes
     /\ status_.lane_change_lanes = obs.gate.lane_change_lanes
     /\ status_.lane_change_path = obs.gate.safe_path
     /\ status_.is_safe = obs.gate.found_safe_path
C20_Witness ==
  /\ obs.op = "processOnEntry"
  /\ is_activated_ /\ prev_approved_path_.kind = "abort"
  /\ ~is_abort_approval_requested_ /\ ~is_abort_path_approved_
  /\ current_lane_change_state_ = "Normal"
  /\ obs.gate.found_valid_path /\ status_.lane_change_path = obs.gate.safe_path

\* C21: after processOnExit the abort path pointer is null, both abort approval
\* flags are false, the sub-state is Normal and the path candidate is cleared.
C21_ExitClearsAbortState ==
  obs.op = "processOnExit"
  => /\ abort_path_ = NullPath
     /\ ~is_abort_approval_requested_ /\ ~is_abort_path_approved_
     /\ current_lane_change_state_ = "Normal"
     /\ path_candidate_ = NoOutput
\* the exit of a maneuver that had published an approved abort path
C21_Witness ==
  /\ obs.op = "processOnExit"
  /\ is_activated_ /\ prev_approved_path_.kind = "abort"
  /\ abort_path_ = NullPath
  /\ ~is_abort_approval_requested_ /\ ~is_abort_path_approved_
  /\ current_lane_change_state_ = "Normal"

\* C22: a step that takes the sub-state from Abort to Normal is a
\* processOnEntry or a processOnExit; no updateState and no plan does it.
C22_AbortLeftOnlyByFreshEntry ==
  [][current_lane_change_state_ = "Abort"
       /\ current_lane_change_state_' = "Normal"
     => obs'.op \in {"processOnEntry", "processOnExit"}]_vars

\* C23: while approval for the stored abort path has been requested and not
\* yet granted, no step other than the reset of processOnExit changes the
\* stored abort path.
C23_RequestedAbortPathImmutable ==
  [][is_abort_approval_requested_ /\ ~is_abort_path_approved_
       /\ abort_path_ # NullPath /\ obs'.op # "processOnExit"
     => abort_path_' = abort_path_]_vars

\* C24: after every cycle the flags of the maneuver status are those of the
\* cycle: after planWaitingApproval the safety flag is what the candidate
\* search of that call found, and after plan() the validity flag is the verdict
\* of that call (an empty output exactly when it is false).
C24_FlagsRecomputedEveryCycle ==
  /\ obs.op = "planWaitingApproval"
     => status_.is_safe = obs.gate.found_safe_path
  /\ obs.op = "plan" => (status_.is_valid_path <=> output.kind # "empty")

\* C25: in a cycle that ran planWaitingApproval (the maneuver has been entered
\* and no plan() of it has judged its path), updateState does not report
\* SUCCESS for an invalid path: the validity flag it reads is not a false
\* verdict of an earlier maneuver.
C25_FreshManeuverNotEndedByOldVerdict ==
  /\ obs.op = "updateState" /\ current_state_ = "SUCCESS"
  /\ output.kind \notin {"lane_change", "abort", "empty"}
  => status_.is_valid_path

\* C26: in a cycle of updateState with a valid path and no approval pending,
\* a finished lane change (hasFinishedLaneChange) gives SUCCESS whatever the
\* safety of the path.
C26_FinishDecidedBeforeSafety ==
  /\ obs.op = "updateState" /\ ~is_waiting_approval_ /\ status_.is_valid_path
  /\ obs.cycle.finished
  => current_state_ = "SUCCESS"

waiting_checked == obs.op = "updateState" /\ is_waiting_approval_
count_fails == obs.p.execute_object_num > Len(target_objects)
margin_fails ==
  /\ target_objects # << >>
  /\ obs.p.execute_object_longitudinal_margin > target_objects[1].longitudinal
finish_fails ==
  /\ target_objects # << >>
  /\ obs.p.execute_only_when_lane_change_finish_before_object
  /\ ~(target_objects[1].longitudinal > obs.cycle.end)
\* C27 (as stated): after an updateState of a module waiting for approval, a
\* target-object count below execute_object_num gives SUCCESS, a front-object
\* distance below the margin gives FAILURE, a lane change that does not finish
\* before the front object (flag set) gives FAILURE, and none of them RUNNING.
C27_Stated ==
  waiting_checked
  => /\ count_fails => current_state_ = "SUCCESS"
     /\ margin_fails => current_state_ = "FAILURE"
     /\ finish_fails => current_state_ = "FAILURE"
     /\ count_fails \/ margin_fails \/ finish_fails => current_state_ # "RUNNING"
\* C27 (amended): the checks are made in order on a valid path and the first
\* one that fails decides: the count check gives SUCCESS; with enough objects
\* the margin check gives FAILURE; with enough objects the finish check gives
\* FAILURE; whichever fails, the result is not RUNNING.
C27_FirstFailedCheckEndsRequest ==
  waiting_checked
  => /\ status_.is_valid_path /\ count_fails => current_state_ = "SUCCESS"
     /\ status_.is_valid_path /\ ~count_fails /\ margin_fails
        => current_state_ = "FAILURE"
     /\ status_.is_valid_path /\ ~count_fails /\ finish_fails
        => current_state_ = "FAILURE"
     /\ count_fails \/ margin_fails \/ finish_fails => current_state_ # "RUNNING"
\* one object, nearer than the margin, where two are required: SUCCESS
C27_Witness ==
  /\ waiting_checked /\ status_.is_valid_path
  /\ count_fails /\ margin_fails
  /\ current_state_ = "SUCCESS"

\* C28 (as stated): a plan() made in the Stop sub-state publishes the
\* lane-change path of the status, leaves the registration at the gateway as
\* it is, does not wait for approval, and changes neither abort flag nor the
\* abort path.
C28_Stated ==
  [][obs'.op = "plan" /\ current_lane_change_state_ = "Stop"
     => /\ output' = Path("lane_change", status_.lane_change_path, FALSE)
        /\ rtc' = rtc /\ rtc_path' = rtc_path
        /\ ~is_waiting_approval_'
        /\ UNCHANGED <<is_abort_approval_requested_, is_abort_path_approved_,
                       abort_path_>>]_vars
\* C28 (amended): in any cycle whose sub-state is Stop, plan() publishes the
\* committed lane-change path held in the maneuver status unless it finds the
\* path invalid in that cycle, when it returns an empty output instead; either
\* way it makes no change to approval registration, requests no approval for an
\* abort, and leaves both abort flags and the AbortPath unchanged.
C28_StopPlanHoldsPathAndFlags ==
  [][obs'.op = "plan" /\ current_lane_change_state_ = "Stop"
     => /\ output' = IF status_'.is_valid_path
                     THEN Path("lane_change", status_.lane_change_path, FALSE)
                     ELSE Path("empty", NoPath, FALSE)
        /\ rtc' = rtc /\ rtc_path' = rtc_path
        /\ status_'.is_valid_path => ~is_waiting_approval_'
        /\ UNCHANGED <<is_abort_approval_requested_, is_abort_path_approved_,
                       abort_path_>>]_vars
\* plan() has published the lane-change path in the Stop sub-state, abort
\* enabled and an AbortPath of an earlier cycle still stored
C28_Witness ==
  /\ obs.op = "plan" /\ current_lane_change_state_ = "Stop"
  /\ parameters_.enable_abort_lane_change /\ abort_path_ # NullPath
  /\ status_.is_valid_path
  /\ output = Path("lane_change", status_.lane_change_path, FALSE)
  /\ rtc # "none"

\* C30: an updateState made while abort is enabled, the sub-state is Abort with
\* a non-null AbortPath, the path is valid, the module is not waiting for
\* approval and the ego is outside the original lane returns RUNNING without
\* asking isAbortConditionSatisfied for the safety of the path, and leaves the
\* sub-state, the AbortPath and both abort flags as they were; it yields
\* neither SUCCESS nor FAILURE in any cycle, a finished lane change included.
held_in_abort ==
  /\ parameters_.enable_abort_lane_change
  /\ current_lane_change_state_ = "Abort" /\ abort_path_ # NullPath
  /\ status_.is_valid_path /\ ~is_waiting_approval_
C30_AbortOutsideLaneStaysRunning ==
  [][held_in_abort /\ obs'.op = "updateState"
       /\ ~obs'.cycle.is_within_original_lane
     => /\ current_state_' = "RUNNING"
        /\ ~obs'.cycle.asked
        /\ UNCHANGED <<current_lane_change_state_, abort_path_,
                       is_abort_approval_requested_, is_abort_path_approved_>>]_vars
\* the hold has been applied to a maneuver whose lane change has finished
C30_Witness ==
  /\ held_in_abort /\ obs.op = "updateState"
  /\ ~obs.cycle.is_within_original_lane /\ ~obs.cycle.asked
  /\ obs.cycle.finished
  /\ current_state_ = "RUNNING"

\* C29: the lanes a lane search returns are chosen from the front target
\* object only: a search that returns lanes was made with a target object, and
\* the lanes are those of the left neighbour of the first lanelet of the
\* preparation range that has one when the front object is on the right of the
\* path, and of the right neighbour of the first lanelet that has one
\* otherwise; no later lanelet and no neighbour of the other side is used.
first_with(has) ==
  CHOOSE i \in 1..obs.gate.check :
     /\ obs.gate.current_lanes[i] \in has
     /\ \A j \in 1..(i - 1) : obs.gate.current_lanes[j] \notin has
lanes_of_front_object ==
  IF isOnRight(target_objects[1])
  THEN <<Neighbour("left", obs.gate.current_lanes[first_with(obs.gate.left)])>>
  ELSE <<Neighbour("right", obs.gate.current_lanes[first_with(obs.gate.right)])>>
C29_DirectionFromFrontObject ==
  obs.gate.searched /\ obs.gate.lane_change_lanes # NoLanes
  => /\ target_objects # << >>
     /\ obs.gate.lane_change_lanes = lanes_of_front_object

\* C31: in every reachable state, is_abort_path_approved_ implies
\* is_abort_approval_requested_ and a non-null AbortPath: an abort path is not
\* marked approved before its approval was requested.
C31_ApprovedAbortWasRequested ==
  is_abort_path_approved_
  => is_abort_approval_requested_ /\ abort_path_ # NullPath
\* plan() has marked the abort path approved
C31_Witness ==
  /\ obs.op = "plan" /\ is_abort_path_approved_
  /\ is_abort_approval_requested_ /\ abort_path_ # NullPath

\* C32: an updateState of a module that is not waiting for approval yields
\* FAILURE only in a cycle where isAbortConditionSatisfied found the committed
\* path unsafe with the ego within the original lane, so that the sub-state it
\* set is Cancel, and the ego is not both near the end of the lane and slow;
\* it never yields FAILURE with the sub-state left at Normal, Stop or Abort.
C32_FailureOnlyOfCancel ==
  obs.op = "updateState" /\ ~is_waiting_approval_ /\ current_state_ = "FAILURE"
  => /\ obs.cycle.asked /\ ~obs.cycle.is_path_safe
     /\ obs.cycle.is_within_original_lane
     /\ ~obs.cycle.slow_near_end
     /\ current_lane_change_state_ = "Cancel"
\* a running maneuver has been cancelled and failed
C32_Witness ==
  /\ obs.op = "updateState" /\ ~is_waiting_approval_ /\ current_state_ = "FAILURE"
  /\ obs.cycle.asked /\ ~obs.cycle.is_path_safe
  /\ current_lane_change_state_ = "Cancel"

\* C33: a call of isAbortConditionSatisfied made with enable_cancel_lane_change
\* false, or with is_activated_ (the approval snapshot of the last plan())
\* false, returns false, sets the sub-state to Normal whatever it was, does not
\* re-check the safety of the path and leaves the AbortPath as it was; and with
\* cancel disabled the sub-state is never Cancel, Stop or Abort, abort enabled
\* or not.
C33_NoCancelWithoutEnableAndSnapshot ==
  [][/\ obs'.op = "updateState" /\ obs'.cycle.called
          /\ (~parameters_.enable_cancel_lane_change \/ ~is_activated_)
        => /\ ~obs'.ret /\ ~obs'.cycle.asked
           /\ current_lane_change_state_' = "Normal"
           /\ abort_path_' = abort_path_
     /\ ~parameters_.enable_cancel_lane_change
        => current_lane_change_state_' = "Normal"]_vars
\* a maneuver that had requested approval for an abort path is back in Normal
\* after a call made without the activation snapshot
C33_Witness ==
  /\ obs.op = "updateState" /\ obs.cycle.called
  /\ parameters_.enable_cancel_lane_change /\ ~is_activated_
  /\ current_lane_change_state_ = "Normal"
  /\ abort_path_ # NullPath /\ is_abort_approval_requested_
  /\ ~obs.ret /\ ~obs.cycle.asked

====
